---- MODULE Spec2Model ----
(***************************************************************************)
(* Order-to-rider assignment workflow of the PideAI admin dashboard        *)
(* (lib/api/orders: assignOrderToRider, getAvailableRiders, cancelOrder).  *)
(* The data store (orders and riders tables) is shared state; every await  *)
(* on the store client is one atomic step of an invocation, and steps of   *)
(* different invocations interleave freely.                                *)
(***************************************************************************)
EXTENDS Integers, Sequences, FiniteSets, TLC

\* ---------------------------------------------------------------- universe
Orders == {"o1", "o2"}
Riders == {"r1", "r2"}
Procs  == {"p1", "p2"}

NULL   == "null"
NoTime == 0

\* Bounds of the exploration.
SeqCalls  == 3      \* invocations in a run of Spec (one caller)
MaxCalls  == 3      \* invocations in a run of SpecRace (overlapping callers)
MaxEnv    == 1      \* events the core does not control in a run of Spec:
                    \* store operations that fail, steps of outside actors
DelivCalls == 2     \* invocations in a run of SpecDelivery
MaxDeliver == 2     \* delivery-side steps in a run of SpecDelivery
UiCalls   == 1      \* assignments started from the modal in a run of SpecUI
FaultCalls == 3     \* invocations in a run of SpecFaults
MaxFaults == 2      \* store operations that return an error in a run of SpecFaults
MaxAuthEvents == 2  \* onAuthStateChange events in a run of SpecAuth

\* Outcome of one store round trip: data, { error }, or a raised fault.
Outcomes == {"ok", "error", "throw"}
Reasons  == {NULL, "motivo"}

ActiveStatuses == {"assigned", "in_transit"}

\* Error strings returned by the two operations (written here without accents).
RiderNotFound        == "Rider no encontrado"
RiderInactive        == "Rider no esta activo"
RiderUnavailable     == "Rider no esta disponible"
OrderNotFound        == "Pedido no encontrado"
OrderNotPending      == "Pedido ya fue asignado o completado"
OrderUpdateFailed    == "Error al actualizar el pedido"
AssignUnexpected     == "Error inesperado al asignar rider"
AlreadyCancelled     == "Pedido ya esta cancelado"
AlreadyDelivered     == "No se puede cancelar un pedido entregado"
CancelUpdateFailed   == "Error al cancelar el pedido"
CancelUnexpected     == "Error inesperado al cancelar pedido"

VARIABLES
    orders,     \* orders table: id -> row
    riders,     \* riders table: id -> row
    inv,        \* per caller: the invocation in progress or last returned
    gh,         \* per caller: history of the invocation (what it wrote, ...)
    calls,      \* invocations started so far
    faults,     \* store failures so far
    exts,       \* steps of outside actors so far
    log,        \* run history: successful assigns of each order, the orders
                \* an assign invocation has written, the riders a failed
                \* rider write of assign left available
    ui          \* presentation layer: session profile of each caller, last
                \* permission check, last rider list, last middleware response

vars == <<orders, riders, inv, gh, calls, faults, exts, log, ui>>

\* ------------------------------------------------------------------- rows
NewOrder(n) ==
    [status |-> "pending", delivery_id |-> NULL, notes |-> n,
     assigned_at |-> NoTime, delivered_at |-> NoTime, cancelled_at |-> NoTime]

NewRider == [status |-> "available", is_active |-> TRUE]

NoRider  == [status |-> NULL, is_active |-> FALSE]

InitNotes(o) == IF o = "o1" THEN <<"nota">> ELSE <<>>

\* ---------------------------------------------------------------- results
AssignRiderResult(ok, err) == [success |-> ok, error |-> err]
Success   == AssignRiderResult(TRUE, NULL)
Failure(e) == AssignRiderResult(FALSE, e)
NoResult  == AssignRiderResult(FALSE, NULL)

NoRiderRead == [status |-> NULL, is_active |-> FALSE]
NoOrderRead == [status |-> NULL, delivery_id |-> NULL]
NoData      == [isNull |-> TRUE, rows |-> {}]

IdleInv ==
    [op |-> "none", pc |-> "idle", orderId |-> NULL, riderId |-> NULL,
     reason |-> NULL, rider |-> NoRiderRead, order |-> NoOrderRead,
     otherOrders |-> NoData, result |-> NoResult]

NoPrev == [orderId |-> NULL, success |-> FALSE, preStatus |-> NULL, cancelled_at |-> NoTime]

IdleGh ==
    [wrote |-> {}, alone |-> FALSE, clean |-> FALSE,
     preOrder |-> NewOrder(<<>>), preRider |-> NoRider, prev |-> NoPrev]

Running(p) == inv[p].pc \notin {"idle", "done"}
Quiescent  == \A p \in Procs : ~Running(p)

\* ----------------------------------------------- decisions of the handlers
\* Each returns the error the handler returns at that point, or NULL when
\* the handler goes on to its next store operation.

\* Variants of riderCheck with one test missing.
riderCheck_NoActiveTest(oc, row) ==
    IF oc = "error" THEN RiderNotFound
    ELSE IF row.status # "available" THEN RiderUnavailable
    ELSE NULL

riderCheck_NoStatusTest(oc, row) ==
    IF oc = "error" THEN RiderNotFound
    ELSE IF ~row.is_active THEN RiderInactive
    ELSE NULL

\* assignOrderToRider, after the riders select (.single()).
riderCheck(oc, row) ==
    IF oc = "error" THEN RiderNotFound
    ELSE IF ~row.is_active THEN RiderInactive
    ELSE IF row.status # "available" THEN RiderUnavailable
    ELSE NULL

\* Variant of orderCheck that lets a non-pending order through.
orderCheck_NoPendingTest(oc, row) ==
    IF oc = "error" THEN OrderNotFound
    ELSE NULL

\* assignOrderToRider, after the orders select (.single()).
orderCheck(oc, row) ==
    IF oc = "error" THEN OrderNotFound
    ELSE IF row.status # "pending" THEN OrderNotPending
    ELSE NULL

\* Variant of cancelCheck that lets a delivered order through.
cancelCheck_NoDeliveredTest(oc, row) ==
    IF oc = "error" THEN OrderNotFound
    ELSE IF row.status = "cancelled" THEN AlreadyCancelled
    ELSE NULL

\* Variant of cancelCheck that lets a cancelled order through.
cancelCheck_NoCancelledTest(oc, row) ==
    IF oc = "error" THEN OrderNotFound
    ELSE IF row.status = "delivered" THEN AlreadyDelivered
    ELSE NULL

\* cancelOrder, after the orders select (.single()).
cancelCheck(oc, row) ==
    IF oc = "error" THEN OrderNotFound
    ELSE IF row.status = "cancelled" THEN AlreadyCancelled
    ELSE IF row.status = "delivered" THEN AlreadyDelivered
    ELSE NULL

\* new Date().toISOString() stored in a field: an instant the field did not
\* hold before. A timestamp is kept as the number of instants its field has
\* been given (NoTime: null). updated_at, which every update also sets and
\* nothing reads, is left out of the rows.
newDate(old) == old + 1

\* Variant of assignUpdate that leaves delivery_id out of the update.
assignUpdate_NoDeliveryId(row, riderId) ==
    [row EXCEPT !.status = "assigned", !.assigned_at = newDate(@)]

\* Variant of assignUpdate that leaves assigned_at out of the update.
assignUpdate_NoAssignedAt(row, riderId) ==
    [row EXCEPT !.delivery_id = riderId, !.status = "assigned"]

\* The fields assignOrderToRider writes to the order.
assignUpdate(row, riderId) ==
    [row EXCEPT !.delivery_id = riderId, !.status = "assigned",
                !.assigned_at = newDate(@)]

\* The text cancelOrder stores in notes.
cancelNotes(reason) ==
    IF reason # NULL THEN <<"Cancelado: " \o reason>>
    ELSE <<"Cancelado por el administrador">>

\* The fields cancelOrder writes to the order.
cancelUpdate(row, reason) ==
    [row EXCEPT !.status = "cancelled", !.cancelled_at = newDate(@),
                !.notes = cancelNotes(reason)]

\* The fields written to a rider by assign (busy) and cancel (available).
riderUpdate(row, st) == [row EXCEPT !.status = st]

\* cancelOrder's recount: the rider's other orders in assigned / in_transit.
recount(tbl, orderId, riderId) ==
    {x \in Orders : /\ x # orderId
                    /\ tbl[x].delivery_id = riderId
                    /\ tbl[x].status \in ActiveStatuses}

\* Variant of shouldRelease that releases the rider whatever the recount.
shouldRelease_Always(other) == TRUE

\* cancelOrder: !otherOrders || otherOrders.length === 0
shouldRelease(other) == other.isNull \/ Cardinality(other.rows) = 0

ActiveCount(tbl, r) ==
    Cardinality({x \in Orders : tbl[x].delivery_id = r
                                /\ tbl[x].status \in ActiveStatuses})

\* ------------------------------------------------------ presentation layer
\* Roles of the dashboard (UserRole) and a role string outside the type.
Roles       == {"admin", "sub-admin", "soporte"}
UnknownRole == "otro"

\* The profile state of useAuth: null, or a row of profiles with its role.
NoProfile     == [isNull |-> TRUE, role |-> NULL]
Profile(role) == [isNull |-> FALSE, role |-> role]
Profiles      == {NoProfile} \cup {Profile(x) : x \in Roles \cup {UnknownRole}}

\* What a call returns to its caller: a value, or an exception.
Returned(v) == [raised |-> FALSE, value |-> v]
Raised      == [raised |-> TRUE, value |-> FALSE]

\* Variant of roleHierarchy with sub-admin at the level of admin.
roleHierarchy_SubAdminTop(role) ==
    CASE role = "admin"     -> [undefined |-> FALSE, level |-> 3]
      [] role = "sub-admin" -> [undefined |-> FALSE, level |-> 3]
      [] role = "soporte"   -> [undefined |-> FALSE, level |-> 1]
      [] OTHER              -> [undefined |-> TRUE, level |-> 0]

\* roleHierarchy[role]: the level of a role, undefined for any other key.
roleHierarchy(role) ==
    CASE role = "admin"     -> [undefined |-> FALSE, level |-> 3]
      [] role = "sub-admin" -> [undefined |-> FALSE, level |-> 2]
      [] role = "soporte"   -> [undefined |-> FALSE, level |-> 1]
      [] OTHER              -> [undefined |-> TRUE, level |-> 0]

\* Variant of GreaterOrEqual that reads an undefined operand as level 0.
GreaterOrEqual_UndefinedAsZero(a, b) == a.level >= b.level

\* userLevel >= requiredLevel: with an undefined operand the comparison is
\* between NaN and a number, which is false.
GreaterOrEqual(a, b) == ~a.undefined /\ ~b.undefined /\ a.level >= b.level

\* Variant of hasPermission without the guard on a null profile: reading
\* .role of null raises.
hasPermission_NoProfileTest(profile, requiredRole) ==
    IF profile.isNull THEN Raised
    ELSE Returned(GreaterOrEqual(roleHierarchy(profile.role),
                                 roleHierarchy(requiredRole)))

\* hasPermission of useAuth, for the profile the hook holds.
hasPermission(profile, requiredRole) ==
    IF profile.isNull THEN Returned(FALSE)
    ELSE Returned(GreaterOrEqual(roleHierarchy(profile.role),
                                 roleHierarchy(requiredRole)))

\* Request paths, as sequences of characters.
LOGIN     == <<"/", "l", "o", "g", "i", "n">>
SIGNUP    == <<"/", "s", "i", "g", "n", "u", "p">>
FORGOT    == <<"/", "f", "o", "r", "g", "o", "t", "-",
               "p", "a", "s", "s", "w", "o", "r", "d">>
RESET     == <<"/", "r", "e", "s", "e", "t", "-",
               "p", "a", "s", "s", "w", "o", "r", "d">>
DASHBOARD == <<"/", "d", "a", "s", "h", "b", "o", "a", "r", "d">>

PUBLIC_ROUTES == <<LOGIN, SIGNUP, FORGOT, RESET>>

Pathnames ==
    {<<"/">>, LOGIN, LOGIN \o <<"x">>, LOGIN \o <<"/", "x">>,
     <<"/", "l", "o", "g">>, <<"/", "a">> \o LOGIN,
     SIGNUP, SIGNUP \o <<"/", "x">>, FORGOT, RESET, <<"/", "r", "e", "s", "e", "t">>,
     DASHBOARD, DASHBOARD \o LOGIN}

Users == {NULL, "u1"}

\* String.prototype.startsWith
startsWith(s, prefix) ==
    Len(prefix) <= Len(s) /\ SubSeq(s, 1, Len(prefix)) = prefix

\* Variant of isPublicRoute that wants the path to be a public route itself.
isPublicRoute_Exact(pathname) ==
    \E i \in 1..Len(PUBLIC_ROUTES) : pathname = PUBLIC_ROUTES[i]

\* PUBLIC_ROUTES.some((route) => pathname.startsWith(route))
isPublicRoute(pathname) ==
    \E i \in 1..Len(PUBLIC_ROUTES) : startsWith(pathname, PUBLIC_ROUTES[i])

\* Responses of the middleware.
Redirect(to) == [kind |-> "redirect", to |-> to]
PassThrough  == [kind |-> "next", to |-> <<>>]
Thrown       == [kind |-> "throw", to |-> <<>>]

\* updateSession: configured is whether both NEXT_PUBLIC_SUPABASE_URL and
\* NEXT_PUBLIC_SUPABASE_ANON_KEY are defined, user what auth.getUser() gave.
updateSession(configured, user, pathname) ==
    IF ~configured THEN Thrown
    ELSE IF user = NULL /\ ~isPublicRoute(pathname) /\ ~startsWith(pathname, LOGIN)
         THEN Redirect(LOGIN)
    ELSE IF user # NULL /\ startsWith(pathname, LOGIN)
         THEN Redirect(DASHBOARD)
    ELSE PassThrough

\* The riders in full_name order: the full_name of r2 sorts before that of r1.
ByFullName == <<"r2", "r1">>

\* The riders select: status = available, is_active = true, order full_name.
availableByName(rtbl) ==
    SelectSeq(ByFullName,
              LAMBDA r : rtbl[r].status = "available" /\ rtbl[r].is_active)

\* The map that adds activeOrders to each row.
ridersWithActiveOrders(rs, otbl) ==
    [i \in 1..Len(rs) |-> [id |-> rs[i], activeOrders |-> ActiveCount(otbl, rs[i])]]

\* Array.prototype.sort, which is stable, with (a, b) => a.activeOrders -
\* b.activeOrders: an element goes after those of the sorted part whose
\* comparison with it is not positive.
InsertSorted(s, x) ==
    LET at == Cardinality({j \in 1..Len(s) :
                              s[j].activeOrders - x.activeOrders <= 0})
    IN  SubSeq(s, 1, at) \o <<x>> \o SubSeq(s, at + 1, Len(s))

RECURSIVE sort(_)
sort(s) ==
    IF s = <<>> THEN <<>>
    ELSE InsertSorted(sort(SubSeq(s, 1, Len(s) - 1)), s[Len(s)])

\* Variant of getAvailableRiders that returns the rows in the order of the
\* select.
getAvailableRiders_NoSort(oc, rtbl, otbl) ==
    IF oc # "ok" THEN <<>>
    ELSE ridersWithActiveOrders(availableByName(rtbl), otbl)

\* getAvailableRiders: [] on { error } and on a raised fault.
getAvailableRiders(oc, rtbl, otbl) ==
    IF oc # "ok" THEN <<>>
    ELSE sort(ridersWithActiveOrders(availableByName(rtbl), otbl))

\* State of the presentation layer before anything was asked.
NoCheck    == [asked |-> FALSE, requiredRole |-> NULL, result |-> Returned(FALSE)]
NoList     == [asked |-> FALSE, outcome |-> NULL, rows |-> <<>>]
NoResponse == [asked |-> FALSE, configured |-> FALSE, user |-> NULL,
               pathname |-> <<>>, response |-> PassThrough]

\* Messages handleLogin reports with setError (written without accents).
FieldsRequired  == "Por favor ingresa email y contrasena"
NotAuthenticated == "No se pudo autenticar el usuario"
NoAdminProfile  == "No se encontro un perfil de administrador para este usuario"
NoAdminRole     == "No tienes permisos de administrador para acceder a este panel"
AuthMessage     == "authError.message"
RaisedMessage   == "err.message"

\* validRoles.includes(profile.role)
validRoles == {"admin", "sub-admin", "soporte"}

\* handleLogin after the profiles select: the error it throws after signing
\* out, or NULL when the role admits the user.
loginCheck(oc, row) ==
    IF oc = "error" \/ row.isNull THEN NoAdminProfile
    ELSE IF row.role \notin validRoles THEN NoAdminRole
    ELSE NULL

\* The login form: where handleLogin is, the user signInWithPassword gave, the
\* profile row it read, whether it called signOut and router.push, the
\* message it reported.
NoLogin ==
    [pc |-> "idle", user |-> NULL, fetched |-> FALSE, profile |-> NoProfile,
     pending |-> NULL, signOutCalled |-> FALSE, navigated |-> FALSE, error |-> NULL]

\* The accounts that can sign in, and the role in the profiles row of each.
AuthUsers == {"u1", "u2"}
profileData(user) == Profile(IF user = "u1" THEN "admin" ELSE "soporte")

\* useAuth before its effect has run: user null, profile null, loading true.
\* profileId is the id of the row in the profile state; tasks are the awaits
\* in flight (getUser, or the profiles select for a user, started by the
\* initial getUser or by an onAuthStateChange callback).
NoAuth ==
    [mounted |-> FALSE, user |-> NULL, profileId |-> NULL, loading |-> TRUE,
     tasks |-> {}, events |-> 0]

IdleUi ==
    [profile |-> [p \in Procs |-> NoProfile], check |-> [p \in Procs |-> NoCheck],
     list |-> NoList, response |-> NoResponse, session |-> NULL, login |-> NoLogin,
     auth |-> NoAuth]

\* --------------------------------------------------------------- plumbing
\* A store round trip may fail while the run has had fewer than MaxEnv events
\* the core does not control.
FaultOk(oc) == (oc # "ok") => (faults + exts < MaxEnv)
FaultsAfter(oc) == IF oc = "ok" THEN faults ELSE faults + 1

\* A step of caller p is seen by every other caller's invocation.
Disturbed(g) ==
    [g EXCEPT !.alone = FALSE, !.preOrder = NewOrder(<<>>), !.preRider = NoRider,
              !.prev = NoPrev]

Seen(p, g) == [q \in Procs |-> IF q = p THEN g ELSE Disturbed(gh[q])]

\* The catch block turns a raised fault into a failure result.
Return(i, res) == [i EXCEPT !.pc = "done", !.result = res]

Init ==
    /\ orders = [o \in Orders |-> NewOrder(InitNotes(o))]
    /\ riders = [r \in Riders |-> NewRider]
    /\ inv = [p \in Procs |-> IdleInv]
    /\ gh = [p \in Procs |-> IdleGh]
    /\ calls = 0
    /\ faults = 0
    /\ exts = 0
    /\ log = [assignOk |-> [o \in Orders |-> 0], assigned |-> {}, stale |-> {}]
    /\ ui = IdleUi

\* History kept when caller p starts a new invocation: its previous one, when
\* that was a cancelOrder that ran undisturbed with no store failure.
PrevOf(p) ==
    IF inv[p].op = "cancel" /\ gh[p].alone /\ gh[p].clean
    THEN [orderId |-> inv[p].orderId, success |-> inv[p].result.success,
          preStatus |-> gh[p].preOrder.status,
          cancelled_at |-> orders[inv[p].orderId].cancelled_at]
    ELSE NoPrev

\* History kept when caller p starts a new invocation: a rider left available
\* by a failed rider write of assign stops being counted as such once a
\* cancelOrder on an order that referenced it has returned success.
Settled(p) ==
    IF inv[p].op = "cancel" /\ inv[p].result.success
    THEN [log EXCEPT !.stale = @ \ {inv[p].order.delivery_id}]
    ELSE log

StartGh(p, o, r, oc) ==
    [wrote |-> {}, alone |-> TRUE, clean |-> (oc = "ok"),
     preOrder |-> orders[o],
     preRider |-> IF r \in Riders THEN riders[r] ELSE NoRider,
     prev |-> PrevOf(p)]

Step(p, oc, w) ==
    [gh[p] EXCEPT !.clean = @ /\ (oc = "ok"), !.wrote = @ \cup w]

\* ------------------------------------------------------ assignOrderToRider
\* Call, then step 1: select status, is_active of the rider.
AssignReadRider(p, o, r, oc) ==
    /\ ~Running(p)
    /\ LET base == [IdleInv EXCEPT !.op = "assign", !.orderId = o, !.riderId = r]
           row  == [status |-> riders[r].status, is_active |-> riders[r].is_active]
           err  == riderCheck(oc, row)
           read == IF oc = "ok" THEN [base EXCEPT !.rider = row] ELSE base
       IN  inv' = [inv EXCEPT ![p] =
                     IF oc = "throw" THEN Return(base, Failure(AssignUnexpected))
                     ELSE IF err # NULL THEN Return(read, Failure(err))
                     ELSE [read EXCEPT !.pc = "a_readOrder"]]
    /\ gh' = Seen(p, StartGh(p, o, r, oc))
    /\ calls' = calls + 1
    /\ faults' = FaultsAfter(oc)
    /\ log' = Settled(p)
    /\ UNCHANGED <<orders, riders, exts, ui>>

\* Step 2: select status of the order.
AssignReadOrder(p, oc) ==
    /\ inv[p].pc = "a_readOrder"
    /\ LET o    == inv[p].orderId
           row  == [status |-> orders[o].status, delivery_id |-> NULL]
           err  == orderCheck(oc, row)
           read == IF oc = "ok" THEN [inv[p] EXCEPT !.order = row] ELSE inv[p]
       IN  inv' = [inv EXCEPT ![p] =
                     IF oc = "throw" THEN Return(inv[p], Failure(AssignUnexpected))
                     ELSE IF err # NULL THEN Return(read, Failure(err))
                     ELSE [read EXCEPT !.pc = "a_writeOrder"]]
    /\ gh' = Seen(p, Step(p, oc, {}))
    /\ faults' = FaultsAfter(oc)
    /\ UNCHANGED <<orders, riders, calls, exts, log, ui>>

\* Step 3: update the order (delivery_id, status, assigned_at, updated_at).
AssignWriteOrder(p, oc) ==
    /\ inv[p].pc = "a_writeOrder"
    /\ LET o == inv[p].orderId
       IN  /\ orders' = IF oc = "ok"
                        THEN [orders EXCEPT ![o] = assignUpdate(@, inv[p].riderId)]
                        ELSE orders
           /\ gh' = Seen(p, Step(p, oc, IF oc = "ok" THEN {<<"order", o>>} ELSE {}))
    /\ inv' = [inv EXCEPT ![p] =
                 IF oc = "throw" THEN Return(@, Failure(AssignUnexpected))
                 ELSE IF oc = "error" THEN Return(@, Failure(OrderUpdateFailed))
                 ELSE [@ EXCEPT !.pc = "a_writeRider"]]
    /\ faults' = FaultsAfter(oc)
    /\ log' = IF oc = "ok"
              THEN [log EXCEPT !.assigned = @ \cup {inv[p].orderId}]
              ELSE log
    /\ UNCHANGED <<riders, calls, exts, ui>>

\* Step 4: update the rider to busy; an error is logged, then success.
AssignWriteRider(p, oc) ==
    /\ inv[p].pc = "a_writeRider"
    /\ LET r == inv[p].riderId
       IN  /\ riders' = IF oc = "ok"
                        THEN [riders EXCEPT ![r] = riderUpdate(@, "busy")]
                        ELSE riders
           /\ gh' = Seen(p, Step(p, oc, IF oc = "ok" THEN {<<"rider", r>>} ELSE {}))
    /\ inv' = [inv EXCEPT ![p] =
                 IF oc = "throw" THEN Return(@, Failure(AssignUnexpected))
                 ELSE Return(@, Success)]
    /\ faults' = FaultsAfter(oc)
    /\ log' = [log EXCEPT
                 !.assignOk[inv[p].orderId] = IF oc = "throw" THEN @ ELSE @ + 1,
                 !.stale = IF oc = "ok" THEN @ ELSE @ \cup {inv[p].riderId}]
    /\ UNCHANGED <<orders, calls, exts, ui>>

\* ------------------------------------------------------------- cancelOrder
\* Call, then step 1: select delivery_id, status of the order.
CancelReadOrder(p, o, reason, oc) ==
    /\ ~Running(p)
    /\ LET base == [IdleInv EXCEPT !.op = "cancel", !.orderId = o, !.reason = reason]
           row  == [status |-> orders[o].status, delivery_id |-> orders[o].delivery_id]
           err  == cancelCheck(oc, row)
           read == IF oc = "ok" THEN [base EXCEPT !.order = row] ELSE base
       IN  inv' = [inv EXCEPT ![p] =
                     IF oc = "throw" THEN Return(base, Failure(CancelUnexpected))
                     ELSE IF err # NULL THEN Return(read, Failure(err))
                     ELSE [read EXCEPT !.pc = "c_writeOrder"]]
    /\ gh' = Seen(p, StartGh(p, o, orders[o].delivery_id, oc))
    /\ calls' = calls + 1
    /\ faults' = FaultsAfter(oc)
    /\ log' = Settled(p)
    /\ UNCHANGED <<orders, riders, exts, ui>>

\* Step 2: update the order (status, cancelled_at, notes, updated_at); with no
\* rider on the order that was read, the invocation returns success here.
CancelWriteOrder(p, oc) ==
    /\ inv[p].pc = "c_writeOrder"
    /\ LET o == inv[p].orderId
       IN  /\ orders' = IF oc = "ok"
                        THEN [orders EXCEPT ![o] = cancelUpdate(@, inv[p].reason)]
                        ELSE orders
           /\ gh' = Seen(p, Step(p, oc, IF oc = "ok" THEN {<<"order", o>>} ELSE {}))
    /\ inv' = [inv EXCEPT ![p] =
                 IF oc = "throw" THEN Return(@, Failure(CancelUnexpected))
                 ELSE IF oc = "error" THEN Return(@, Failure(CancelUpdateFailed))
                 ELSE IF inv[p].order.delivery_id # NULL THEN [@ EXCEPT !.pc = "c_recount"]
                 ELSE Return(@, Success)]
    /\ faults' = FaultsAfter(oc)
    /\ UNCHANGED <<riders, calls, exts, log, ui>>

\* Step 3: select the rider's other active orders; its error is not looked at
\* (data is null then).
CancelRecount(p, oc) ==
    /\ inv[p].pc = "c_recount"
    /\ LET other == IF oc = "ok"
                    THEN [isNull |-> FALSE,
                          rows |-> recount(orders, inv[p].orderId, inv[p].order.delivery_id)]
                    ELSE NoData
       IN  inv' = [inv EXCEPT ![p] =
                     IF oc = "throw" THEN Return(@, Failure(CancelUnexpected))
                     ELSE IF shouldRelease(other)
                          THEN [@ EXCEPT !.otherOrders = other, !.pc = "c_writeRider"]
                          ELSE Return([@ EXCEPT !.otherOrders = other], Success)]
    /\ gh' = Seen(p, Step(p, oc, {}))
    /\ faults' = FaultsAfter(oc)
    /\ UNCHANGED <<orders, riders, calls, exts, log, ui>>

\* Variant of CancelWriteRider whose update is not filtered by the rider's id.
CancelWriteRider_AllRiders(p, oc) ==
    /\ inv[p].pc = "c_writeRider"
    /\ riders' = IF oc = "ok"
                 THEN [r \in Riders |-> riderUpdate(riders[r], "available")]
                 ELSE riders
    /\ gh' = Seen(p, Step(p, oc, IF oc = "ok"
                                 THEN {<<"rider", inv[p].order.delivery_id>>} ELSE {}))
    /\ inv' = [inv EXCEPT ![p] =
                 IF oc = "throw" THEN Return(@, Failure(CancelUnexpected))
                 ELSE Return(@, Success)]
    /\ faults' = FaultsAfter(oc)
    /\ UNCHANGED <<orders, calls, exts, log, ui>>

\* Step 4: update the rider to available; the result of the update is ignored.
CancelWriteRider(p, oc) ==
    /\ inv[p].pc = "c_writeRider"
    /\ LET r == inv[p].order.delivery_id
       IN  /\ riders' = IF oc = "ok"
                        THEN [riders EXCEPT ![r] = riderUpdate(@, "available")]
                        ELSE riders
           /\ gh' = Seen(p, Step(p, oc, IF oc = "ok" THEN {<<"rider", r>>} ELSE {}))
    /\ inv' = [inv EXCEPT ![p] =
                 IF oc = "throw" THEN Return(@, Failure(CancelUnexpected))
                 ELSE Return(@, Success)]
    /\ faults' = FaultsAfter(oc)
    /\ UNCHANGED <<orders, calls, exts, log, ui>>

\* ------------------------------------------------- actors outside the core
\* Delivery-side progression of an order: assigned -> in_transit -> delivered.
Deliver(o) ==
    /\ orders[o].status \in ActiveStatuses
    /\ orders' = [orders EXCEPT ![o] =
                    IF @.status = "assigned"
                    THEN [@ EXCEPT !.status = "in_transit"]
                    ELSE [@ EXCEPT !.status = "delivered", !.delivered_at = newDate(@)]]
    /\ exts' = exts + 1
    /\ gh' = [q \in Procs |-> Disturbed(gh[q])]
    /\ UNCHANGED <<riders, inv, calls, faults, log, ui>>

\* The same step, counted against the budget of outside events of Spec.
DeliveryProgress(o) == faults + exts < MaxEnv /\ Deliver(o)

\* A rider's own availability update, or an administrator's activation flag:
\* st is available, offline, or the status the rider has.
RiderSelfUpdate(r, st, act) ==
    /\ faults + exts < MaxEnv
    /\ st \in {"available", "offline", riders[r].status}
    /\ ~(riders[r].status = st /\ riders[r].is_active = act)
    /\ riders' = [riders EXCEPT ![r] =
                    [@ EXCEPT !.status = st, !.is_active = act]]
    /\ exts' = exts + 1
    /\ gh' = [q \in Procs |-> Disturbed(gh[q])]
    /\ UNCHANGED <<orders, inv, calls, faults, log, ui>>

\* ----------------------------------------------- presentation layer steps
\* useAuth: setProfile(profileData) after the profiles select, setProfile(null)
\* with no user or a failed select. The component renders again, and what
\* hasPermission returned for the previous profile is gone.
LoadProfile(p, prof) ==
    /\ ui.profile[p] # prof
    /\ ui' = [ui EXCEPT !.profile[p] = prof, !.check[p] = NoCheck]
    /\ UNCHANGED <<orders, riders, inv, gh, calls, faults, exts, log>>

\* A component of caller p asks hasPermission(requiredRole).
HasPermission(p, requiredRole) ==
    /\ ui' = [ui EXCEPT !.check[p] =
                [asked |-> TRUE, requiredRole |-> requiredRole,
                 result |-> hasPermission(ui.profile[p], requiredRole)]]
    /\ UNCHANGED <<orders, riders, inv, gh, calls, faults, exts, log>>

\* AssignRiderModal.handleAssign: setAssigning(true), then
\* assignOrderToRider(orderId, riderId) at once; the steps of the invocation
\* follow, and its result only chooses the toast.
HandleAssign(p, o, r, oc) == AssignReadRider(p, o, r, oc)

\* The middleware answers one request.
UpdateSession(configured, user, pathname) ==
    /\ ui' = [ui EXCEPT !.response =
                [asked |-> TRUE, configured |-> configured, user |-> user,
                 pathname |-> pathname,
                 response |-> updateSession(configured, user, pathname)]]
    /\ UNCHANGED <<orders, riders, inv, gh, calls, faults, exts, log>>

\* AssignRiderModal.loadRiders: the list getAvailableRiders gives for the
\* tables as they are.
GetAvailableRiders(oc) ==
    /\ ui' = [ui EXCEPT !.list =
                [asked |-> TRUE, outcome |-> oc,
                 rows |-> getAvailableRiders(oc, riders, orders)]]
    /\ UNCHANGED <<orders, riders, inv, gh, calls, faults, exts, log>>

\* ------------------------------------------------------------- handleLogin
\* Submit: the form check, then signInWithPassword. With credentials that
\* authenticate the browser holds a session from here on.
HandleLogin(filled, oc, user) ==
    /\ ui.login.pc \in {"idle", "done"}
    /\ LET done(msg) == [NoLogin EXCEPT !.pc = "done", !.error = msg]
       IN  ui' = IF ~filled THEN [ui EXCEPT !.login = done(FieldsRequired)]
                 ELSE IF oc = "throw" THEN [ui EXCEPT !.login = done(RaisedMessage)]
                 ELSE IF oc = "error" THEN [ui EXCEPT !.login = done(AuthMessage)]
                 ELSE IF user = NULL THEN [ui EXCEPT !.login = done(NotAuthenticated)]
                 ELSE [ui EXCEPT !.session = user,
                                 !.login = [NoLogin EXCEPT !.pc = "l_profile",
                                                           !.user = user]]
    /\ UNCHANGED <<orders, riders, inv, gh, calls, faults, exts, log>>

\* The profiles select (role of the user, .single()): a raised fault goes to
\* the catch; a missing profile, an error or a role that is not valid goes to
\* signOut; a valid role goes to router.push('/dashboard').
LoginReadProfile(oc, row) ==
    /\ ui.login.pc = "l_profile"
    /\ LET err  == loginCheck(oc, row)
           read == IF oc = "ok"
                   THEN [ui.login EXCEPT !.fetched = TRUE, !.profile = row]
                   ELSE ui.login
       IN  ui' = [ui EXCEPT !.login =
                    IF oc = "throw"
                    THEN [read EXCEPT !.pc = "done", !.error = RaisedMessage]
                    ELSE IF err # NULL
                    THEN [read EXCEPT !.pc = "l_signOut", !.pending = err]
                    ELSE [read EXCEPT !.pc = "done", !.navigated = TRUE]]
    /\ UNCHANGED <<orders, riders, inv, gh, calls, faults, exts, log>>

\* await supabase.auth.signOut(), its result not looked at, then the error is
\* thrown and reported; a raised fault is reported instead.
LoginSignOut(oc) ==
    /\ ui.login.pc = "l_signOut"
    /\ ui' = [ui EXCEPT
                !.session = IF oc = "ok" THEN NULL ELSE @,
                !.login = [@ EXCEPT !.pc = "done", !.signOutCalled = TRUE,
                                    !.error = IF oc = "throw" THEN RaisedMessage
                                              ELSE ui.login.pending]]
    /\ UNCHANGED <<orders, riders, inv, gh, calls, faults, exts, log>>

\* The middleware answers a request of the browser, with the session it has.
BrowserRequest(configured, pathname) ==
    UpdateSession(configured, ui.session, pathname)

\* ----------------------------------------------------------------- useAuth
\* setProfile(row) and setProfile(null) for the hook of caller p.
setProfile(u, p, user) ==
    [u EXCEPT !.profile[p] = IF user = NULL THEN NoProfile ELSE profileData(user),
              !.check[p] = NoCheck,
              !.auth.profileId = user]

\* The effect runs: getUser() is called and the onAuthStateChange callback
\* is registered.
Mount(p) ==
    /\ ~ui.auth.mounted
    /\ ui' = [ui EXCEPT !.auth.mounted = TRUE,
                        !.auth.tasks = {[kind |-> "getUser", src |-> "init",
                                         id |-> 0, user |-> NULL]}]
    /\ UNCHANGED <<orders, riders, inv, gh, calls, faults, exts, log>>

\* auth.getUser() resolves: setUser(user), then the profiles select for a
\* user, setProfile(null) without one; a raised fault goes to the catch.
GetUserResolve(p, t, oc, user) ==
    /\ t \in ui.auth.tasks
    /\ t.kind = "getUser"
    /\ LET got  == IF oc = "ok" THEN user ELSE NULL
           rest == ui.auth.tasks \ {t}
       IN  ui' = IF got = NULL
                 THEN [setProfile(ui, p, NULL) EXCEPT
                          !.auth.user = NULL, !.auth.loading = FALSE,
                          !.auth.tasks = rest]
                 ELSE [ui EXCEPT
                          !.auth.user = got,
                          !.auth.tasks = rest \cup {[t EXCEPT !.kind = "profile",
                                                              !.user = got]}]
    /\ UNCHANGED <<orders, riders, inv, gh, calls, faults, exts, log>>

\* An auth event reaches the callback: setUser(session?.user ?? null), then
\* the profiles select for a user, setProfile(null) without one.
AuthStateChange(p, user) ==
    /\ ui.auth.mounted
    /\ ui' = IF user = NULL
             THEN [setProfile(ui, p, NULL) EXCEPT
                      !.auth.user = NULL, !.auth.loading = FALSE,
                      !.auth.events = @ + 1]
             ELSE [ui EXCEPT
                      !.auth.user = user,
                      !.auth.events = @ + 1,
                      !.auth.tasks = @ \cup {[kind |-> "profile", src |-> "event",
                                              id |-> ui.auth.events + 1,
                                              user |-> user]}]
    /\ UNCHANGED <<orders, riders, inv, gh, calls, faults, exts, log>>

\* A profiles select resolves: setProfile(profileData), or setProfile(null)
\* on { error }. A raised fault goes to the catch of getUser (setUser(null),
\* setProfile(null)); in the callback nothing catches it and nothing is set.
ProfileResolve(p, t, oc) ==
    /\ t \in ui.auth.tasks
    /\ t.kind = "profile"
    /\ LET rest == ui.auth.tasks \ {t}
       IN  ui' = IF oc = "ok"
                 THEN [setProfile(ui, p, t.user) EXCEPT
                          !.auth.loading = FALSE, !.auth.tasks = rest]
                 ELSE IF oc = "error"
                 THEN [setProfile(ui, p, NULL) EXCEPT
                          !.auth.loading = FALSE, !.auth.tasks = rest]
                 ELSE IF t.src = "init"
                 THEN [setProfile(ui, p, NULL) EXCEPT
                          !.auth.user = NULL, !.auth.loading = FALSE,
                          !.auth.tasks = rest]
                 ELSE [ui EXCEPT !.auth.tasks = rest]
    /\ UNCHANGED <<orders, riders, inv, gh, calls, faults, exts, log>>

\* ---------------------------------------------------------- specification
\* One caller at a time; store operations may fail; the delivery side and the
\* riders act at any moment, also between two round trips of an invocation.
SeqProcs == {"p1"}

Next ==
    \/ \E p \in SeqProcs, o \in Orders, r \in Riders, oc \in Outcomes :
          calls < SeqCalls /\ FaultOk(oc) /\ AssignReadRider(p, o, r, oc)
    \/ \E p \in SeqProcs, oc \in Outcomes : FaultOk(oc) /\ AssignReadOrder(p, oc)
    \/ \E p \in SeqProcs, oc \in Outcomes : FaultOk(oc) /\ AssignWriteOrder(p, oc)
    \/ \E p \in SeqProcs, oc \in Outcomes : FaultOk(oc) /\ AssignWriteRider(p, oc)
    \/ \E p \in SeqProcs, o \in Orders, reason \in Reasons, oc \in Outcomes :
          calls < SeqCalls /\ FaultOk(oc) /\ CancelReadOrder(p, o, reason, oc)
    \/ \E p \in SeqProcs, oc \in Outcomes : FaultOk(oc) /\ CancelWriteOrder(p, oc)
    \/ \E p \in SeqProcs, oc \in Outcomes : FaultOk(oc) /\ CancelRecount(p, oc)
    \/ \E p \in SeqProcs, oc \in Outcomes : FaultOk(oc) /\ CancelWriteRider(p, oc)
    \/ \E o \in Orders : DeliveryProgress(o)
    \/ \E r \in Riders, st \in {"available", "busy", "offline"}, act \in BOOLEAN :
          RiderSelfUpdate(r, st, act)

Spec == Init /\ [][Next]_vars

\* Callers whose invocations overlap: every interleaving of the round trips of
\* assign and cancel invocations, every store operation succeeding, nobody
\* else writing.
NextRace ==
    \/ \E p \in Procs, o \in Orders, r \in Riders :
          calls < MaxCalls /\ AssignReadRider(p, o, r, "ok")
    \/ \E p \in Procs : AssignReadOrder(p, "ok")
    \/ \E p \in Procs : AssignWriteOrder(p, "ok")
    \/ \E p \in Procs : AssignWriteRider(p, "ok")
    \/ \E p \in Procs, o \in Orders, reason \in Reasons :
          calls < MaxCalls /\ CancelReadOrder(p, o, reason, "ok")
    \/ \E p \in Procs : CancelWriteOrder(p, "ok")
    \/ \E p \in Procs : CancelRecount(p, "ok")
    \/ \E p \in Procs : CancelWriteRider(p, "ok")

SpecRace == Init /\ [][NextRace]_vars

\* One caller and the delivery side: the delivery side moves orders forward
\* at any moment, also between two round trips of an invocation; a store
\* operation may fail as long as the run has had no outside event.
NextDelivery ==
    \/ \E p \in SeqProcs, o \in Orders, r \in Riders, oc \in Outcomes :
          calls < DelivCalls /\ FaultOk(oc) /\ AssignReadRider(p, o, r, oc)
    \/ \E p \in SeqProcs, oc \in Outcomes : FaultOk(oc) /\ AssignReadOrder(p, oc)
    \/ \E p \in SeqProcs, oc \in Outcomes : FaultOk(oc) /\ AssignWriteOrder(p, oc)
    \/ \E p \in SeqProcs, oc \in Outcomes : FaultOk(oc) /\ AssignWriteRider(p, oc)
    \/ \E p \in SeqProcs, o \in Orders, reason \in Reasons, oc \in Outcomes :
          calls < DelivCalls /\ FaultOk(oc) /\ CancelReadOrder(p, o, reason, oc)
    \/ \E p \in SeqProcs, oc \in Outcomes : FaultOk(oc) /\ CancelWriteOrder(p, oc)
    \/ \E p \in SeqProcs, oc \in Outcomes : FaultOk(oc) /\ CancelRecount(p, oc)
    \/ \E p \in SeqProcs, oc \in Outcomes : FaultOk(oc) /\ CancelWriteRider(p, oc)
    \/ \E o \in Orders : exts < MaxDeliver /\ Deliver(o)

SpecDelivery == Init /\ [][NextDelivery]_vars

\* One caller at a time, every store operation succeeding, nobody else
\* writing; the modal reads the rider list between invocations and between
\* their round trips.
NextSeq ==
    \/ \E p \in SeqProcs, o \in Orders, r \in Riders :
          calls < SeqCalls /\ AssignReadRider(p, o, r, "ok")
    \/ \E p \in SeqProcs : AssignReadOrder(p, "ok")
    \/ \E p \in SeqProcs : AssignWriteOrder(p, "ok")
    \/ \E p \in SeqProcs : AssignWriteRider(p, "ok")
    \/ \E p \in SeqProcs, o \in Orders, reason \in Reasons :
          calls < SeqCalls /\ CancelReadOrder(p, o, reason, "ok")
    \/ \E p \in SeqProcs : CancelWriteOrder(p, "ok")
    \/ \E p \in SeqProcs : CancelRecount(p, "ok")
    \/ \E p \in SeqProcs : CancelWriteRider(p, "ok")
    \/ \E oc \in Outcomes : GetAvailableRiders(oc)

SpecSeq == Init /\ [][NextSeq]_vars

\* One caller at a time, nobody else writing; up to MaxFaults store operations
\* of the run return { error }.
Replies == {"ok", "error"}
ErrorOk(oc) == (oc # "ok") => (faults < MaxFaults)

NextFaults ==
    \/ \E p \in SeqProcs, o \in Orders, r \in Riders, oc \in Replies :
          calls < FaultCalls /\ ErrorOk(oc) /\ AssignReadRider(p, o, r, oc)
    \/ \E p \in SeqProcs, oc \in Replies : ErrorOk(oc) /\ AssignReadOrder(p, oc)
    \/ \E p \in SeqProcs, oc \in Replies : ErrorOk(oc) /\ AssignWriteOrder(p, oc)
    \/ \E p \in SeqProcs, oc \in Replies : ErrorOk(oc) /\ AssignWriteRider(p, oc)
    \/ \E p \in SeqProcs, o \in Orders, reason \in Reasons, oc \in Replies :
          calls < FaultCalls /\ ErrorOk(oc) /\ CancelReadOrder(p, o, reason, oc)
    \/ \E p \in SeqProcs, oc \in Replies : ErrorOk(oc) /\ CancelWriteOrder(p, oc)
    \/ \E p \in SeqProcs, oc \in Replies : ErrorOk(oc) /\ CancelRecount(p, oc)
    \/ \E p \in SeqProcs, oc \in Replies : ErrorOk(oc) /\ CancelWriteRider(p, oc)

SpecFaults == Init /\ [][NextFaults]_vars

\* The presentation layer of one signed-in or anonymous caller: the session
\* profile changes, components ask for permissions, the modal assigns.
NextUI ==
    \/ \E p \in SeqProcs, prof \in Profiles : LoadProfile(p, prof)
    \/ \E p \in SeqProcs, requiredRole \in Roles \cup {UnknownRole} :
          HasPermission(p, requiredRole)
    \/ \E p \in SeqProcs, o \in Orders, r \in Riders :
          calls < UiCalls /\ HandleAssign(p, o, r, "ok")
    \/ \E p \in SeqProcs : AssignReadOrder(p, "ok")
    \/ \E p \in SeqProcs : AssignWriteOrder(p, "ok")
    \/ \E p \in SeqProcs : AssignWriteRider(p, "ok")

SpecUI == Init /\ [][NextUI]_vars

\* The session of one caller: the profile changes, components ask for
\* permissions, the middleware answers the requests of the browser.
NextSession ==
    \/ \E p \in SeqProcs, prof \in Profiles : LoadProfile(p, prof)
    \/ \E p \in SeqProcs, requiredRole \in Roles \cup {UnknownRole} :
          HasPermission(p, requiredRole)
    \/ \E configured \in BOOLEAN, user \in Users, pathname \in Pathnames :
          UpdateSession(configured, user, pathname)

SpecSession == Init /\ [][NextSession]_vars

\* The login page: submissions of the form, and requests of the browser
\* answered by the middleware with the session the login left.
NextLogin ==
    \/ \E filled \in BOOLEAN, oc \in Outcomes, user \in Users :
          HandleLogin(filled, oc, user)
    \/ \E oc \in Outcomes, row \in Profiles : LoginReadProfile(oc, row)
    \/ \E oc \in Outcomes : LoginSignOut(oc)
    \/ \E configured \in BOOLEAN, pathname \in Pathnames :
          BrowserRequest(configured, pathname)

SpecLogin == Init /\ [][NextLogin]_vars

\* The useAuth hook of one component: its effect, the auth events of the
\* session, the awaits resolving in any order, and permission checks.
AuthTasks ==
    [kind : {"getUser", "profile"}, src : {"init", "event"},
     id : 0..(MaxAuthEvents + 1), user : AuthUsers \cup {NULL}]

NextAuth ==
    \/ \E p \in SeqProcs : Mount(p)
    \/ \E p \in SeqProcs, t \in AuthTasks, oc \in Outcomes, user \in AuthUsers \cup {NULL} :
          GetUserResolve(p, t, oc, user)
    \/ \E p \in SeqProcs, user \in AuthUsers \cup {NULL} :
          ui.auth.events < MaxAuthEvents /\ AuthStateChange(p, user)
    \/ \E p \in SeqProcs, t \in AuthTasks, oc \in Outcomes : ProfileResolve(p, t, oc)
    \/ \E p \in SeqProcs, requiredRole \in Roles \cup {UnknownRole} :
          HasPermission(p, requiredRole)

SpecAuth == Init /\ [][NextAuth]_vars

\* The rider list over the tables the workflow, the delivery side and the
\* riders can leave behind: an order is pending with no rider, carries a rider
\* once assigned, and may be cancelled with or without one; a rider has any
\* status and activation flag.
OrderRow(st, d) ==
    [status |-> st, delivery_id |-> d, notes |-> <<>>,
     assigned_at |-> IF d # NULL THEN newDate(NoTime) ELSE NoTime,
     delivered_at |-> IF st = "delivered" THEN newDate(NoTime) ELSE NoTime,
     cancelled_at |-> IF st = "cancelled" THEN newDate(NoTime) ELSE NoTime]

OrderRows ==
    {OrderRow("pending", NULL), OrderRow("cancelled", NULL)}
    \cup {OrderRow(st, r) : st \in {"assigned", "in_transit", "delivered", "cancelled"},
                            r \in Riders}

RiderRows == [status : {"available", "busy", "offline"}, is_active : BOOLEAN]

InitList ==
    /\ orders \in [Orders -> OrderRows]
    /\ riders \in [Riders -> RiderRows]
    /\ inv = [p \in Procs |-> IdleInv]
    /\ gh = [p \in Procs |-> IdleGh]
    /\ calls = 0
    /\ faults = 0
    /\ exts = 0
    /\ log = [assignOk |-> [o \in Orders |-> 0], assigned |-> {}, stale |-> {}]
    /\ ui = IdleUi

NextList == \E oc \in Outcomes : GetAvailableRiders(oc)

SpecList == InitList /\ [][NextList]_vars

\* ===================================================================
\* Properties
\* ===================================================================
Terminal == {"delivered", "cancelled"}

\* An invocation of op by p has returned, ran with no step of anybody else
\* since its call, and none of its store operations failed.
RanAlone(p, op) ==
    /\ inv[p].op = op
    /\ inv[p].pc = "done"
    /\ gh[p].alone
    /\ gh[p].clean

\* C1: whenever no assign or cancel invocation is in progress, a rider is busy
\* if and only if at least one order in assigned / in_transit references it
\* (callers overlap, every store operation succeeds, nobody else writes).
C1_BusyIffActiveOrder ==
    Quiescent =>
        \A r \in Riders : (riders[r].status = "busy") <=> (ActiveCount(orders, r) > 0)

\* C2: no double assignment: at most one assign invocation per order returns
\* success, and a delivery_id once set on an order is not changed by a later
\* step.
C2_NoDoubleAssignment ==
    [][\A o \in Orders :
          /\ log'.assignOk[o] <= 1
          /\ (orders[o].delivery_id # NULL =>
                 orders'[o].delivery_id = orders[o].delivery_id)]_vars

\* C3: an order whose status is delivered or cancelled keeps that status in
\* every step of every assign and cancel invocation.
C3_TerminalNeverLeft ==
    [][\A o \in Orders :
          orders[o].status \in Terminal => orders'[o].status = orders[o].status]_vars

\* C4 (Scenario A): assign, run alone with every store operation succeeding
\* on a pending order and an available, active rider, returns success and
\* leaves the order assigned to the rider with assigned_at set, the rider busy.
C4_ScenarioA ==
    \A p \in Procs :
        (/\ RanAlone(p, "assign")
         /\ gh[p].preOrder.status = "pending"
         /\ gh[p].preRider.status = "available"
         /\ gh[p].preRider.is_active)
        => /\ inv[p].result = Success
           /\ orders[inv[p].orderId].status = "assigned"
           /\ orders[inv[p].orderId].delivery_id = inv[p].riderId
           /\ orders[inv[p].orderId].assigned_at # NoTime
           /\ orders[inv[p].orderId].assigned_at # gh[p].preOrder.assigned_at
           /\ riders[inv[p].riderId].status = "busy"

C4_Witness ==
    \E p \in Procs :
        /\ RanAlone(p, "assign")
        /\ gh[p].preOrder.status = "pending"
        /\ gh[p].preRider.status = "available"
        /\ gh[p].preRider.is_active
        /\ inv[p].result = Success

\* The state Scenario B starts from: the order assigned to the rider of the
\* call, that rider busy and active.
AfterScenarioA(p) ==
    /\ RanAlone(p, "assign")
    /\ gh[p].preOrder.status = "assigned"
    /\ gh[p].preOrder.delivery_id = inv[p].riderId
    /\ gh[p].preRider.status = "busy"
    /\ gh[p].preRider.is_active

Untouched(p) ==
    /\ gh[p].wrote = {}
    /\ orders[inv[p].orderId] = gh[p].preOrder
    /\ riders[inv[p].riderId] = gh[p].preRider

\* C5 as stated (Scenario B): repeating assign(O1, R1) fails with
\* OrderNotPending and changes neither O1 nor R1.
C5_ScenarioB_AsStated ==
    \A p \in Procs :
        AfterScenarioA(p) => inv[p].result = Failure(OrderNotPending) /\ Untouched(p)

\* C5 amended (Scenario B): repeating assign(O1, R1), run alone with its store
\* reads succeeding, fails with RiderUnavailable (the rider is checked before
\* the order) and changes neither O1 nor R1.
C5_ScenarioB ==
    \A p \in Procs :
        AfterScenarioA(p) => inv[p].result = Failure(RiderUnavailable) /\ Untouched(p)

C5_Witness == \E p \in Procs : AfterScenarioA(p)

\* C6: an assign whose rider read returns is_active = false returns failure
\* with the rider-inactive reason at once and writes nothing, whatever the
\* rider's status and the order's status.
C6_InactiveRiderRefused ==
    \A p \in Procs :
        (inv[p].op = "assign" /\ inv[p].rider.status # NULL /\ ~inv[p].rider.is_active)
        => /\ inv[p].pc = "done"
           /\ inv[p].result = Failure(RiderInactive)
           /\ gh[p].wrote = {}

C6_Witness ==
    \E p \in Procs :
        /\ inv[p].op = "assign"
        /\ inv[p].rider.status = "busy"
        /\ ~inv[p].rider.is_active
        /\ orders[inv[p].orderId].status # "pending"

\* C7: an assign whose order read returns a status other than pending returns
\* failure with OrderNotPending at once and writes neither order nor rider.
C7_NonPendingRefused ==
    \A p \in Procs :
        (inv[p].op = "assign" /\ inv[p].order.status \notin {NULL, "pending"})
        => /\ inv[p].pc = "done"
           /\ inv[p].result = Failure(OrderNotPending)
           /\ gh[p].wrote = {}
           /\ inv[p].rider = [status |-> "available", is_active |-> TRUE]

C7_Witness ==
    \E p \in Procs :
        /\ inv[p].op = "assign"
        /\ inv[p].pc = "done"
        /\ inv[p].order.status = "cancelled"

\* The second of two cancelOrder calls on the same order, one after the
\* other, both alone and without store failure, the first on an order that
\* was pending, assigned or in_transit.
SecondCancel(p) ==
    /\ RanAlone(p, "cancel")
    /\ gh[p].prev.orderId = inv[p].orderId
    /\ gh[p].prev.preStatus \in {"pending", "assigned", "in_transit"}

\* C8: cancelOrder twice in a row: the first call succeeds, the second returns
\* AlreadyCancelled and writes nothing, and cancelled_at still has the value
\* the first call gave it.
C8_CancelTwice ==
    \A p \in Procs :
        SecondCancel(p)
        => /\ gh[p].prev.success
           /\ inv[p].result = Failure(AlreadyCancelled)
           /\ gh[p].wrote = {}
           /\ gh[p].prev.cancelled_at # NoTime
           /\ orders[inv[p].orderId].cancelled_at = gh[p].prev.cancelled_at

C8_Witness ==
    \E p \in Procs : SecondCancel(p) /\ gh[p].prev.preStatus = "assigned"

\* A cancelOrder that ran alone, without store failure, on an order in
\* assigned / in_transit that referenced a rider.
CancelledActive(p) ==
    /\ RanAlone(p, "cancel")
    /\ gh[p].preOrder.status \in ActiveStatuses
    /\ gh[p].preOrder.delivery_id \in Riders

\* C9 (Scenarios C and D): after such a cancel the order is cancelled with
\* cancelled_at set; the rider is available when no other order in assigned /
\* in_transit references it, and keeps its status (busy stays busy) when one
\* does.
C9_RiderRelease ==
    \A p \in Procs :
        CancelledActive(p)
        => LET o == inv[p].orderId
               r == gh[p].preOrder.delivery_id
           IN  /\ inv[p].result = Success
               /\ orders[o].status = "cancelled"
               /\ orders[o].cancelled_at # NoTime
               /\ (ActiveCount(orders, r) = 0 => riders[r].status = "available")
               /\ (ActiveCount(orders, r) > 0 => riders[r].status = gh[p].preRider.status)

\* Scenario D reached: the rider was busy with another active order and is
\* still busy after the cancel.
C9_Witness ==
    \E p \in Procs :
        /\ CancelledActive(p)
        /\ gh[p].preRider.status = "busy"
        /\ ActiveCount(orders, gh[p].preOrder.delivery_id) > 0
        /\ riders[gh[p].preOrder.delivery_id].status = "busy"

\* Scenario C reached: the rider was busy with this order only and is
\* available after the cancel.
ScenarioC_Reached ==
    \E p \in Procs :
        /\ CancelledActive(p)
        /\ gh[p].preRider.status = "busy"
        /\ ActiveCount(orders, gh[p].preOrder.delivery_id) = 0
        /\ riders[gh[p].preOrder.delivery_id].status = "available"

\* C10: in every step in which a cancelOrder writes status = available to a
\* rider, no order in assigned / in_transit references that rider.
C10_ReleaseOnlyWhenIdle ==
    [][\A p \in Procs :
          (inv[p].pc = "c_writeRider" /\ inv'[p].pc = "done"
              /\ riders'[inv[p].order.delivery_id].status = "available")
          => ActiveCount(orders, inv[p].order.delivery_id) = 0]_vars

\* C11: for every order, at most one of delivered_at and cancelled_at is
\* non-null, also when a cancelOrder invocation interleaves with the
\* delivery-side step that sets status = delivered and delivered_at.
C11_OneTerminalStamp ==
    \A o \in Orders :
        ~(orders[o].delivered_at # NoTime /\ orders[o].cancelled_at # NoTime)

\* C12, as stated: for every order, assigned_at is non-null if and only if the
\* status has been other than pending at some point. No step sets a status
\* back to pending, so an order has been other than pending exactly when it is
\* other than pending.
C12_AssignedAtIffLeftPending ==
    \A o \in Orders :
        (orders[o].assigned_at # NoTime) <=> (orders[o].status # "pending")

\* C12, amended: for every order, assigned_at is non-null if and only if an
\* assign invocation has written the order; an order cancelled directly from
\* pending keeps assigned_at null.
C12_AssignedAtIffAssigned ==
    \A o \in Orders :
        (orders[o].assigned_at # NoTime) <=> (o \in log.assigned)

C12_Witness ==
    \E o, x \in Orders :
        /\ orders[o].status = "cancelled"
        /\ orders[o].assigned_at = NoTime
        /\ o \notin log.assigned
        /\ x \in log.assigned
        /\ orders[x].assigned_at # NoTime

\* C13: the result of a returned assign or cancel invocation matches the fate
\* of its order write: success = false only if the invocation did not write
\* the order, success = true once it wrote the order, whatever happened in the
\* later rider steps.
C13_ResultMatchesOrderWrite ==
    \A p \in Procs :
        inv[p].pc = "done" =>
            (inv[p].result.success <=> (<<"order", inv[p].orderId>> \in gh[p].wrote))

\* C14: authorization precedes assignment: no step of an assignOrderToRider
\* invocation writes an order or a rider while the profile of its caller is
\* absent or has a role below sub-admin.
C14_AuthorizationPrecedesAssignment ==
    [][\A p \in Procs :
          (inv[p].op = "assign" /\ gh'[p].wrote \ gh[p].wrote # {})
          => hasPermission(ui.profile[p], "sub-admin").value]_vars

\* C15: for a caller role c and a required role r among admin, sub-admin and
\* soporte, hasPermission(r) with profile.role = c returns true if and only if
\* level(c) >= level(r), with levels admin = 3, sub-admin = 2, soporte = 1; in
\* particular hasPermission('sub-admin') is true for admin and sub-admin and
\* false for soporte.
C15_PermissionByLevel ==
    \A p \in Procs :
        LET c == ui.profile[p].role
            r == ui.check[p].requiredRole
            level(x) == IF x = "admin" THEN 3 ELSE IF x = "sub-admin" THEN 2 ELSE 1
        IN  (ui.check[p].asked /\ ~ui.profile[p].isNull /\ c \in Roles /\ r \in Roles)
            => /\ ui.check[p].result = Returned(level(c) >= level(r))
               /\ (r = "sub-admin" =>
                      (ui.check[p].result.value <=> c \in {"admin", "sub-admin"}))

C15_Witness ==
    \E p \in Procs :
        /\ ui.check[p].asked
        /\ ui.profile[p] = Profile("soporte")
        /\ ui.check[p].requiredRole = "sub-admin"
        /\ ui.check[p].result = Returned(FALSE)

C17_AvailableRiders ==
    ui.list.asked =>
        LET rows == ui.list.rows
            count(r) == Cardinality({o \in Orders :
                            /\ orders[o].delivery_id = r
                            /\ orders[o].status \in {"assigned", "in_transit"}})
            name(r) == CHOOSE i \in 1..Len(ByFullName) : ByFullName[i] = r
        IN  IF ui.list.outcome # "ok" THEN rows = <<>>
            ELSE /\ {rows[i].id : i \in 1..Len(rows)} =
                       {r \in Riders : riders[r].status = "available" /\ riders[r].is_active}
                 /\ \A i, j \in 1..Len(rows) : rows[i].id = rows[j].id => i = j
                 /\ \A i \in 1..Len(rows) : rows[i].activeOrders = count(rows[i].id)
                 /\ \A i, j \in 1..Len(rows) :
                       i < j => \/ count(rows[i].id) < count(rows[j].id)
                                \/ /\ count(rows[i].id) = count(rows[j].id)
                                   /\ name(rows[i].id) < name(rows[j].id)

C17_Witness ==
    /\ ui.list.asked
    /\ ui.list.outcome = "ok"
    /\ Len(ui.list.rows) = 2
    /\ ui.list.rows[1].id = ByFullName[2]
    /\ ui.list.rows[1].activeOrders < ui.list.rows[2].activeOrders

\* C18: a successful cancelOrder appends to the notes of the order: the notes
\* the order had before are kept and the cancellation marker (with the reason
\* when one is given, the default marker otherwise) comes after them.
C18_CancelAppendsNotes ==
    \A p \in Procs :
        (RanAlone(p, "cancel") /\ inv[p].result.success)
        => orders[inv[p].orderId].notes =
               gh[p].preOrder.notes \o cancelNotes(inv[p].reason)

\* C19: cancelOrder rejects what cannot be cancelled: OrderNotFound when the
\* order is absent (the select gives an error), AlreadyCancelled when its
\* status is cancelled, AlreadyDelivered when it is delivered; the invocation
\* returns at that step and writes neither the order nor a rider.
C19_CancelRejects ==
    [][\A p \in Procs, o \in Orders, reason \in Reasons, oc \in {"ok", "error"} :
          LET expected == IF oc = "error" THEN OrderNotFound
                          ELSE IF orders[o].status = "cancelled" THEN AlreadyCancelled
                          ELSE IF orders[o].status = "delivered" THEN AlreadyDelivered
                          ELSE NULL
          IN  (CancelReadOrder(p, o, reason, oc) /\ expected # NULL)
              => /\ inv'[p].pc = "done"
                 /\ inv'[p].result = Failure(expected)
                 /\ gh'[p].wrote = {}
                 /\ orders' = orders
                 /\ riders' = riders]_vars

C19_Witness ==
    \E p \in Procs :
        /\ inv[p].op = "cancel"
        /\ inv[p].pc = "done"
        /\ gh[p].alone
        /\ gh[p].preOrder.status = "delivered"
        /\ gh[p].preOrder.delivery_id # NULL
        /\ riders[gh[p].preOrder.delivery_id].status = "busy"
        /\ inv[p].result = Failure(AlreadyDelivered)

\* C21: login admits only users with a valid role: once handleLogin has
\* finished for credentials that authenticated, it has navigated to /dashboard
\* only if it read a profile whose role is admin, sub-admin or soporte; when
\* the profile is missing, its fetch failed or the role is not valid, signOut
\* was called before the error was reported and there was no navigation.
C21_LoginAdmitsValidRole ==
    LET l == ui.login
        valid == l.fetched /\ ~l.profile.isNull
                 /\ l.profile.role \in {"admin", "sub-admin", "soporte"}
    IN  (l.pc = "done" /\ l.user # NULL)
        => /\ l.navigated => valid
           /\ ~valid => (l.signOutCalled /\ ~l.navigated /\ l.error # NULL)

C23_StampsWrittenOnce ==
    [][\A o \in Orders :
          /\ orders[o].assigned_at # NoTime =>
                 orders'[o].assigned_at = orders[o].assigned_at
          /\ orders[o].cancelled_at # NoTime =>
                 orders'[o].cancelled_at = orders[o].cancelled_at]_vars

\* C24: step order, abort on failure, no retry: an invocation issues its store
\* operations in the order read rider, read order, write order, write rider
\* (assign) or read order, write order, recount, write rider (cancel), each at
\* most once, and issues no store write after one of its earlier operations
\* (a read, the order write, the recount) has failed.
C24_StepOrder ==
    [][\A p \in Procs :
          inv'[p] # inv[p] =>
             /\ <<inv[p].pc, inv'[p].pc>> \in
                   ({"idle", "done"} \X {"a_readOrder", "c_writeOrder", "done"})
                   \cup {<<"a_readOrder", "a_writeOrder">>, <<"a_writeOrder", "a_writeRider">>,
                         <<"c_writeOrder", "c_recount">>, <<"c_recount", "c_writeRider">>}
                   \cup ({"a_readOrder", "a_writeOrder", "a_writeRider",
                          "c_writeOrder", "c_recount", "c_writeRider"} \X {"done"})
             /\ inv[p].pc \in {"a_writeOrder", "a_writeRider", "c_writeOrder", "c_writeRider"}
                   => gh[p].clean]_vars

\* C25: self-healing after a failed rider write: when the rider write of
\* assign fails after its order write, the order stays assigned to the rider;
\* and after the next cancelOrder that returns success on an order referencing
\* that rider, run alone with no store failure, the rider is busy if and only
\* if it has at least one order in assigned / in_transit.
C25_SelfHealing ==
    \A p \in Procs :
        /\ (/\ inv[p].op = "assign"
            /\ inv[p].pc = "done"
            /\ gh[p].alone
            /\ gh[p].wrote = {<<"order", inv[p].orderId>>})
           => /\ orders[inv[p].orderId].status = "assigned"
              /\ orders[inv[p].orderId].delivery_id = inv[p].riderId
        /\ (/\ RanAlone(p, "cancel")
            /\ inv[p].result.success
            /\ inv[p].order.delivery_id \in log.stale)
           => LET r == inv[p].order.delivery_id
              IN  (riders[r].status = "busy") <=> (ActiveCount(orders, r) > 0)

\* C26: a failed recount does not release a rider: cancelOrder writes
\* rider.status = available only when its recount succeeded and returned no
\* other order in assigned / in_transit; a cancel that runs alone never sets
\* to available a rider that still has another active order.
C26_NoReleaseOnFailedRecount ==
    [][\A p \in Procs :
          (/\ inv[p].pc = "c_writeRider"
           /\ <<"rider", inv[p].order.delivery_id>> \in gh'[p].wrote)
          => /\ ~inv[p].otherOrders.isNull
             /\ inv[p].otherOrders.rows = {}
             /\ gh[p].alone =>
                   recount(orders, inv[p].orderId, inv[p].order.delivery_id) = {}]_vars

\* C27: in useAuth, whatever the order in which the initial getUser / profile
\* fetch and the onAuthStateChange callbacks resolve, once all of them have
\* completed the profile state is non-null only if the user state is non-null
\* and the profile is the one of that user; then a signed-out hook has a null
\* profile and hasPermission returns false for every role.
C27_ProfileFollowsUser ==
    \A p \in SeqProcs :
        (ui.auth.mounted /\ ui.auth.tasks = {})
        => /\ ~ui.profile[p].isNull =>
                 (ui.auth.user # NULL /\ ui.auth.profileId = ui.auth.user)
           /\ (ui.auth.user = NULL /\ ui.check[p].asked) =>
                 ui.check[p].result = Returned(FALSE)

\* C28: the release step of cancelOrder only turns a busy rider into an
\* available one: when the rider is offline, or has is_active = false, at the
\* release step, the step leaves the status of the rider unchanged.
C28_ReleaseOnlyBusy ==
    [][\A p \in Procs :
          (inv[p].pc = "c_writeRider" /\ inv'[p].pc = "done")
          => LET r == inv[p].order.delivery_id
             IN  (riders[r].status = "offline" \/ ~riders[r].is_active)
                 => riders'[r].status = riders[r].status]_vars

\* C29: with invocations one at a time, every store operation succeeding and
\* no rider changed from outside, no rider has more than one order in
\* assigned / in_transit: a rider that holds an active order is busy once the
\* invocation has returned, and assign refuses it.
C29_OneActiveOrderPerRider ==
    /\ \A r \in Riders :
          /\ ActiveCount(orders, r) <= 1
          /\ (Quiescent /\ ActiveCount(orders, r) > 0) => riders[r].status = "busy"
    /\ \A p \in Procs :
          (/\ RanAlone(p, "assign")
           /\ ActiveCount(orders, inv[p].riderId) > 0
           /\ orders[inv[p].orderId].delivery_id # inv[p].riderId)
          => inv[p].result = Failure(RiderUnavailable)

C29_Witness ==
    \E p \in Procs :
        /\ RanAlone(p, "assign")
        /\ inv[p].result = Failure(RiderUnavailable)
        /\ orders[inv[p].orderId].status = "pending"
        /\ ActiveCount(orders, inv[p].riderId) > 0

\* C30: in every state and step of every interleaving, an order whose status
\* is assigned has a non-null delivery_id and a non-null assigned_at, and no
\* step of a cancelOrder invocation changes the delivery_id of an order.
C30_AssignedHasRider ==
    [][/\ \A o \in Orders :
             orders'[o].status = "assigned" =>
                (orders'[o].delivery_id # NULL /\ orders'[o].assigned_at # NoTime)
       /\ \A p \in Procs :
             (inv'[p] # inv[p] /\ inv'[p].op = "cancel") =>
                \A o \in Orders : orders'[o].delivery_id = orders[o].delivery_id]_vars

C30_Witness ==
    \E p, q \in Procs :
        /\ inv[p].op = "cancel"
        /\ inv[p].pc = "done"
        /\ inv[p].result.success
        /\ orders[inv[p].orderId].status = "cancelled"
        /\ orders[inv[p].orderId].delivery_id # NULL
        /\ inv[q].op = "assign"
        /\ inv[q].pc = "a_writeRider"
        /\ orders[inv[q].orderId].status = "assigned"

\* The response the route protection rules give: a redirect to /login with no
\* user on a path that starts with none of /login, /signup, /forgot-password,
\* /reset-password; a redirect to /dashboard with a user on a path that starts
\* with /login; the request itself otherwise.
RouteProtection(user, pathname) ==
    IF user = NULL /\ \A route \in {LOGIN, SIGNUP, FORGOT, RESET} :
                          ~startsWith(pathname, route)
    THEN Redirect(LOGIN)
    ELSE IF user # NULL /\ startsWith(pathname, LOGIN)
    THEN Redirect(DASHBOARD)
    ELSE PassThrough

\* C20, as stated: for every request, updateSession answers as the route
\* protection rules say.
C20_RouteProtection_AsStated ==
    ui.response.asked =>
        ui.response.response = RouteProtection(ui.response.user, ui.response.pathname)

\* C20, amended: for every request handled with both NEXT_PUBLIC_SUPABASE_URL
\* and NEXT_PUBLIC_SUPABASE_ANON_KEY defined, updateSession answers as the
\* route protection rules say; with either one undefined it throws before it
\* looks at the user or the path.
C20_RouteProtection ==
    ui.response.asked =>
        ui.response.response =
            IF ui.response.configured
            THEN RouteProtection(ui.response.user, ui.response.pathname)
            ELSE Thrown

C20_Witness ==
    /\ ui.response.asked
    /\ ui.response.configured
    /\ ui.response.user = NULL
    /\ ui.response.pathname = LOGIN \o <<"/", "x">>
    /\ ui.response.response = PassThrough

====
